---- MODULE Spec2Model ----
(***************************************************************************)
(* Hotel administration back end of osaxon/birds-demo: the reservation and *)
(* invoice procedures (reservationsRouter, invoiceRouter) and the extended *)
(* persistence client of src/server/db.ts that recomputes invoice totals.  *)
(* Every request handler is one atomic action on the database tables.      *)
(***************************************************************************)
EXTENDS Integers, Sequences, FiniteSets, TLC

(* ------------------------------ bounds --------------------------------- *)
MaxReservations == 2
MaxInvoices == 3
MaxOrders == 2
MaxEmails == 2
MaxNights == 1
MaxRooms == 2
MaxSteps == 3
MaxLongSteps == 5
MaxHookSteps == 4
MaxRaceSteps == 6

(* ------------------------- program constants --------------------------- *)
ManualBase == 1220
CheckInBase == 2000
CancelledBase == 9000
PadWidth == 6

(* A null column (String? / Decimal?) and the empty string "" *)
Null == 0
NullUSD == 0 - 1
EmptyString == 0 - 2
(* a key that the data of an update does not carry *)
Undefined == 0 - 3

Rooms == 1..MaxRooms
(* room ids a request may name: the rooms of the table and one unknown id *)
RoomIds == 1..(MaxRooms + 1)
(* rate products created by setup, and the ids a request may name *)
ReservationItems == {1}
ReservationItemIds == {1, 2}
Emails == 1..MaxEmails
(* a Date is an instant: day t \div 2, at midnight (t even) or at noon (t odd) *)
Dates == 0..(2 * MaxNights + 1)
DayOf(t) == t \div 2

ReservationStatus == {"CONFIRMED", "CHECKED_IN", "CHECKED_OUT", "CANCELLED", "FINAL_BILL"}
PaymentStatus == {"PAID", "UNPAID", "CANCELLED"}

(* ------------------------------ helpers -------------------------------- *)
Indices(s) == 1..Len(s)

RECURSIVE toString(_)
(* Number.prototype.toString(): the decimal digits of n, most significant first *)
toString(n) == IF n < 10 THEN <<n>> ELSE toString(n \div 10) \o <<n % 10>>

(* String.prototype.padStart(width, "0") *)
padStart(s, width) ==
    IF Len(s) >= width THEN s ELSE [i \in 1..(width - Len(s)) |-> 0] \o s

RECURSIVE parseInt(_)
(* parseInt(s, 10) of a string of decimal digits *)
parseInt(s) ==
    IF Len(s) = 0 THEN 0
    ELSE 10 * parseInt(SubSeq(s, 1, Len(s) - 1)) + s[Len(s)]

RECURSIVE StringLess(_, _)
(* the database's ordering of two strings: lexicographic, a proper prefix first *)
StringLess(a, b) ==
    IF Len(b) = 0 THEN FALSE
    ELSE IF Len(a) = 0 THEN TRUE
    ELSE IF a[1] # b[1] THEN a[1] < b[1]
    ELSE StringLess(Tail(a), Tail(b))

(* invoiceNumber.toString().padStart(6, "0") *)
FormatInvoiceNumber(n) == padStart(toString(n), PadWidth)

(* getDurationOfStay(checkIn, checkOut): the calendar-day difference *)
getDurationOfStay(checkIn, checkOut) == DayOf(checkOut) - DayOf(checkIn)

(* dayjs(a).diff(dayjs(b), "day"): the whole 24-hour periods from b to a,
   truncated towards zero *)
dayjsDiffDays(a, b) == IF a >= b THEN (a - b) \div 2 ELSE 0 - ((b - a) \div 2)

(* the daily rate of a rate product *)
DailyRate(resItem) == 2

(* getRateTotal(days, resItem).value *)
getRateTotal(days, resItem) == DailyRate(resItem) * days

(* room.dailyRateUSD *)
dailyRateUSD(room) == 3

VARIABLES rooms, guests, reservations, invoices, orders, result, issued, steps,
          inflight

vars == <<rooms, guests, reservations, invoices, orders, result, issued, steps,
          inflight>>

(* --------------------------- table queries ----------------------------- *)
RECURSIVE SumOver(_, _, _)
(* the sum of subTotalUSD over the rows of table whose index is in ids *)
SumOver(table, ids, acc) ==
    IF ids = {} THEN acc
    ELSE LET i == CHOOSE x \in ids : TRUE
         IN SumOver(table, ids \ {i}, acc + table[i].subTotalUSD)

(* aggregate({ _sum: { subTotalUSD } }): null when no row matches *)
AggregateSum(table, ids) == IF ids = {} THEN NullUSD ELSE SumOver(table, ids, 0)

(* findFirst({ orderBy: { invoiceNumber: "desc" } }) over the invoices in ids *)
LatestInvoice(invs, ids) ==
    IF ids = {} THEN Null
    ELSE CHOOSE i \in ids :
            \A j \in ids \ {i} : ~StringLess(invs[i].invoiceNumber, invs[j].invoiceNumber)

(* Invoice.invoiceNumber without its unique index *)
InvoiceNumberNotUnique(invs, num, self) == FALSE

(* @unique on Invoice.invoiceNumber: some other invoice already has num *)
InvoiceNumberTaken(invs, num, self) ==
    \E j \in Indices(invs) : j # self /\ invs[j].invoiceNumber = num

(* Guest.email without its unique index *)
GuestEmailNotUnique(gs, email) == FALSE

(* @unique on Guest.email *)
GuestEmailTaken(gs, email) == \E g \in Indices(gs) : gs[g].email = email

(* "increment the latest invoice number by 1", or the starting number *)
NextInvoiceNumberDecrements(invs, latest, base) ==
    IF latest # Null THEN parseInt(invs[latest].invoiceNumber) - 1 ELSE base

NextInvoiceNumber(invs, latest, base) ==
    IF latest # Null THEN parseInt(invs[latest].invoiceNumber) + 1 ELSE base

(* ---------------------- invoice reconciliation ------------------------- *)
(* an invoice hook that returns without recomputing *)
updateInvoiceTotalSkipped(invs, ress, ords, invoiceId) == invs

(* a recomputation whose total is aggregated over the UNPAID rows only *)
updateInvoiceTotalUnpaidOnly(invs, ress, ords, invoiceId) ==
    LET unpaid ==
            SumOver(ress, {r \in Indices(ress) :
                ress[r].invoiceId = invoiceId /\ ress[r].paymentStatus = "UNPAID"}, 0)
            + SumOver(ords, {o \in Indices(ords) :
                ords[o].invoiceId = invoiceId /\ ords[o].status = "UNPAID"}, 0)
    IN IF invoiceId \notin Indices(invs)
       THEN invs
       ELSE [invs EXCEPT ![invoiceId].totalUSD = unpaid,
                         ![invoiceId].remainingBalanceUSD = unpaid]

(* a recomputation that gives up, writing nothing, when the two aggregates of
   one of its steps are both absent *)
updateInvoiceTotalThrowsWhenAbsent(invs, ress, ords, invoiceId) ==
    LET unpaidReservations == {r \in Indices(ress) :
            ress[r].invoiceId = invoiceId /\ ress[r].paymentStatus = "UNPAID"}
        unpaidOrders == {o \in Indices(ords) :
            ords[o].invoiceId = invoiceId /\ ords[o].status = "UNPAID"}
        liveReservations == {r \in Indices(ress) :
            ress[r].invoiceId = invoiceId /\ ress[r].paymentStatus # "CANCELLED"}
        liveOrders == {o \in Indices(ords) :
            ords[o].invoiceId = invoiceId /\ ords[o].status # "CANCELLED"}
    IN IF \/ invoiceId \notin Indices(invs)
          \/ (unpaidReservations = {} /\ unpaidOrders = {})
          \/ (liveReservations = {} /\ liveOrders = {})
       THEN invs
       ELSE [invs EXCEPT
               ![invoiceId].totalUSD =
                   SumOver(ress, liveReservations, 0) + SumOver(ords, liveOrders, 0),
               ![invoiceId].remainingBalanceUSD =
                   SumOver(ress, unpaidReservations, 0) + SumOver(ords, unpaidOrders, 0)]

(* a recomputation that stores the outstanding sum as the total and the sum
   of everything not cancelled as the balance *)
updateInvoiceTotalSwapped(invs, ress, ords, invoiceId) ==
    IF invoiceId \notin Indices(invs)
    THEN invs
    ELSE [invs EXCEPT
            ![invoiceId].totalUSD =
                SumOver(ress, {r \in Indices(ress) :
                    ress[r].invoiceId = invoiceId /\ ress[r].paymentStatus = "UNPAID"}, 0)
                + SumOver(ords, {o \in Indices(ords) :
                    ords[o].invoiceId = invoiceId /\ ords[o].status = "UNPAID"}, 0),
            ![invoiceId].remainingBalanceUSD =
                SumOver(ress, {r \in Indices(ress) :
                    ress[r].invoiceId = invoiceId /\ ress[r].paymentStatus # "CANCELLED"}, 0)
                + SumOver(ords, {o \in Indices(ords) :
                    ords[o].invoiceId = invoiceId /\ ords[o].status # "CANCELLED"}, 0)]

(* a recomputation that adds the sums to the totals the invoice holds *)
updateInvoiceTotalAccumulates(invs, ress, ords, invoiceId) ==
    IF invoiceId \notin Indices(invs)
    THEN invs
    ELSE [invs EXCEPT
            ![invoiceId].totalUSD =
                (IF @ = NullUSD THEN 0 ELSE @)
                + SumOver(ress, {r \in Indices(ress) :
                    ress[r].invoiceId = invoiceId /\ ress[r].paymentStatus # "CANCELLED"}, 0)
                + SumOver(ords, {o \in Indices(ords) :
                    ords[o].invoiceId = invoiceId /\ ords[o].status # "CANCELLED"}, 0),
            ![invoiceId].remainingBalanceUSD =
                (IF @ = NullUSD THEN 0 ELSE @)
                + SumOver(ress, {r \in Indices(ress) :
                    ress[r].invoiceId = invoiceId /\ ress[r].paymentStatus = "UNPAID"}, 0)
                + SumOver(ords, {o \in Indices(ords) :
                    ords[o].invoiceId = invoiceId /\ ords[o].status = "UNPAID"}, 0)]

(* updateInvoiceTotal(invoiceId): the invoices table after the recomputation *)
updateInvoiceTotal(invs, ress, ords, invoiceId) ==
    LET outstandingReservations ==
            AggregateSum(ress, {r \in Indices(ress) :
                ress[r].invoiceId = invoiceId /\ ress[r].paymentStatus = "UNPAID"})
        outstandingOrders ==
            AggregateSum(ords, {o \in Indices(ords) :
                ords[o].invoiceId = invoiceId /\ ords[o].status = "UNPAID"})
        totalReservations ==
            AggregateSum(ress, {r \in Indices(ress) :
                ress[r].invoiceId = invoiceId /\ ress[r].paymentStatus # "CANCELLED"})
        totalOrders ==
            AggregateSum(ords, {o \in Indices(ords) :
                ords[o].invoiceId = invoiceId /\ ords[o].status # "CANCELLED"})
        newBalance ==
            (IF outstandingReservations # NullUSD THEN outstandingReservations ELSE 0)
            + (IF outstandingOrders # NullUSD THEN outstandingOrders ELSE 0)
        newTotal ==
            (IF totalReservations # NullUSD THEN totalReservations ELSE 0)
            + (IF totalOrders # NullUSD THEN totalOrders ELSE 0)
    IN IF invoiceId \notin Indices(invs)
       THEN invs
       ELSE [invs EXCEPT ![invoiceId].totalUSD = newTotal,
                         ![invoiceId].remainingBalanceUSD = newBalance]

(* a catch block that logs the error and returns *)
updateInvoiceTotalSwallows(invs, invoiceId) == "OK"

(* the try / catch of updateInvoiceTotal: prisma.invoice.update rejects when the
   invoice row is not there, and the catch rethrows it as a TRPCError *)
updateInvoiceTotalCode(invs, invoiceId) ==
    IF invoiceId \in Indices(invs) THEN "OK" ELSE "INTERNAL_SERVER_ERROR"

RECURSIVE RecomputeAll(_, _, _, _)
(* `await updateInvoiceTotal(a); await updateInvoiceTotal(b); ...`: the calls
   in order, up to the first one that throws *)
RecomputeAll(invs, ress, ords, calls) ==
    IF calls = <<>> \/ updateInvoiceTotalCode(invs, Head(calls)) # "OK"
    THEN invs
    ELSE RecomputeAll(updateInvoiceTotal(invs, ress, ords, Head(calls)), ress, ords,
                      Tail(calls))

RECURSIVE RecomputeAllCode(_, _)
RecomputeAllCode(invs, calls) ==
    IF calls = <<>> THEN "OK"
    ELSE IF updateInvoiceTotalCode(invs, Head(calls)) # "OK"
    THEN updateInvoiceTotalCode(invs, Head(calls))
    ELSE RecomputeAllCode(invs, Tail(calls))

(* generateCancelledInvoiceNumber() *)
generateCancelledInvoiceNumber(invs) ==
    LET latestCancelled ==
            LatestInvoice(invs, {i \in Indices(invs) : invs[i].status = "CANCELLED"})
    IN FormatInvoiceNumber(NextInvoiceNumber(invs, latestCancelled, CancelledBase))

(* ------------------------------ Init ----------------------------------- *)
NoResult == [op |-> "none", code |-> "OK", id |-> Null, room |-> Null,
             email |-> Null, guest |-> Null, status |-> "none", before |-> "none",
             specs |-> <<>>, checkIn |-> 0, checkOut |-> 0, invoice |-> Null]

(* the requests that can be in flight at the same time *)
Requests == {1, 2}

(* a handler between two of its awaits: pc is "read" once it has read what it
   will write from and "done" when it has returned; number is the invoice
   number it computed and table the Invoice table it computed it from, balance
   and total are the sums updateInvoiceTotal aggregated for invoice, readAt and
   doneAt are the steps at which it read and returned, after is the Invoice
   table it left *)
Idle == [pc |-> "idle", op |-> "none", code |-> "OK", number |-> 0,
         table |-> <<>>, after |-> <<>>, guest |-> Null, email |-> Null,
         specs |-> <<>>, reservation |-> Null, room |-> Null, invoice |-> Null,
         balance |-> 0, total |-> 0, readAt |-> 0, doneAt |-> 0]

Init ==
    /\ inflight = [p \in Requests |-> Idle]
    /\ rooms = [r \in Rooms |-> "VACANT"]
    /\ guests = <<>>
    /\ reservations = <<>>
    /\ invoices = <<>>
    /\ orders = <<>>
    /\ result = NoResult
    /\ issued = <<>>
    /\ steps = 0

(* the last request served: the procedure, its outcome (the tRPC error code,
   or OK), the reservation / invoice / order, room and e-mail it was called
   with; guest, status and specs are the other inputs of invoiceRouter.create
   and of the status updates, before is the status the reservation of a
   checkIn or checkOut had when the request arrived, checkIn and checkOut are
   the dates of a createReservation or calculateSubTotal, invoice is the
   invoice reference in the data of a create or update of the extended client *)
Done(op, code, id, room, email) ==
    [NoResult EXCEPT !.op = op, !.code = code, !.id = id, !.room = room,
                     !.email = email]

StatusBefore(reservationId) ==
    IF reservationId \in Indices(reservations)
    THEN reservations[reservationId].status ELSE "none"

(* --------------------------- reservations ------------------------------ *)
(* reservationsRouter.createReservation *)
(* (the guest name and e-mail it stores on the reservation are never read) *)
createReservation(guestId, checkIn, checkOut, resItemId) ==
    /\ Len(reservations) < MaxReservations
    /\ LET durationInDays == getDurationOfStay(checkIn, checkOut)
           rateTotal == getRateTotal(durationInDays, resItemId)
           id == Len(reservations) + 1
       IN IF resItemId \notin ReservationItems
          THEN /\ result' = Done("createReservation", "NOT_FOUND", Null, Null, Null)
               /\ UNCHANGED reservations
          ELSE IF guestId # Null /\ guestId \notin Indices(guests)
          THEN /\ result' = Done("createReservation", "INTERNAL_SERVER_ERROR", Null, Null, Null)
               /\ UNCHANGED reservations
          ELSE /\ reservations' = Append(reservations,
                     [status |-> "CONFIRMED", paymentStatus |-> "UNPAID",
                      subTotalUSD |-> rateTotal, guestId |-> guestId,
                      roomId |-> Null, invoiceId |-> Null,
                      reservationItemId |-> resItemId])
               /\ result' = [Done("createReservation", "OK", id, Null, Null)
                        EXCEPT !.checkIn = checkIn, !.checkOut = checkOut]
    /\ UNCHANGED <<rooms, guests, invoices, orders, issued>>

(* a checkIn that never finds the rate product missing *)
ReservationItemNeverMissing(ress, reservationId) == FALSE

(* `!resItem`: the updated reservation came back without its rate product *)
ReservationItemMissing(ress, reservationId) ==
    ress[reservationId].reservationItemId \notin ReservationItems

(* reservationsRouter.checkIn from its reservation update on, with the invoice
   number it computed from the latest invoice it read *)
(* (the rate total it computes from the two dates is never stored) *)
checkInWith(invoiceNumber, reservationId, guestEmail, roomId) ==
    LET formattedInvoiceNumber == FormatInvoiceNumber(invoiceNumber)
        guestId == Len(guests) + 1
        invoiceId == Len(invoices) + 1
    IN
    /\ Len(invoices) < MaxInvoices
    /\ IF \/ reservationId \notin Indices(reservations)
          \/ GuestEmailTaken(guests, guestEmail)
          \/ roomId \notin Rooms
       THEN (* the nested write fails as a whole: nothing is persisted *)
            /\ result' = [Done("checkIn", "INTERNAL_SERVER_ERROR", reservationId,
                              roomId, guestEmail)
                        EXCEPT !.before = StatusBefore(reservationId)]
            /\ UNCHANGED <<rooms, guests, reservations, invoices, issued>>
       ELSE /\ guests' = Append(guests,
                   [email |-> guestEmail, currentReservationId |-> reservationId])
            /\ rooms' = [rooms EXCEPT ![roomId] = "OCCUPIED"]
            /\ IF ReservationItemMissing(reservations, reservationId)
               THEN /\ reservations' = [reservations EXCEPT
                           ![reservationId].status = "CHECKED_IN",
                           ![reservationId].guestId = guestId,
                           ![reservationId].roomId = roomId]
                    /\ result' = [Done("checkIn", "UNPROCESSABLE_CONTENT",
                                      reservationId, roomId, guestEmail)
                        EXCEPT !.before = StatusBefore(reservationId)]
                    /\ UNCHANGED <<invoices, issued>>
               ELSE IF InvoiceNumberTaken(invoices, formattedInvoiceNumber, invoiceId)
               THEN (* invoice.create is rejected; the reservation update stays *)
                    /\ reservations' = [reservations EXCEPT
                           ![reservationId].status = "CHECKED_IN",
                           ![reservationId].guestId = guestId,
                           ![reservationId].roomId = roomId]
                    /\ result' = [Done("checkIn", "INTERNAL_SERVER_ERROR",
                                      reservationId, roomId, guestEmail)
                        EXCEPT !.before = StatusBefore(reservationId)]
                    /\ UNCHANGED <<invoices, issued>>
               ELSE /\ reservations' = [reservations EXCEPT
                           ![reservationId].status = "CHECKED_IN",
                           ![reservationId].guestId = guestId,
                           ![reservationId].roomId = roomId,
                           ![reservationId].invoiceId = invoiceId]
                    /\ invoices' = Append(invoices,
                           [invoiceNumber |-> formattedInvoiceNumber,
                            status |-> "UNPAID", totalUSD |-> NullUSD,
                            remainingBalanceUSD |-> NullUSD, guestId |-> guestId])
                    /\ issued' = Append(issued, invoiceNumber)
                    /\ result' = [Done("checkIn", "OK", reservationId, roomId,
                                      guestEmail)
                        EXCEPT !.before = StatusBefore(reservationId)]
    /\ UNCHANGED orders

(* the invoice number checkIn computes from the invoices it reads *)
checkInNumber(invs) ==
    NextInvoiceNumber(invs, LatestInvoice(invs, Indices(invs)), CheckInBase)

(* reservationsRouter.checkIn *)
checkIn(reservationId, guestEmail, roomId) ==
    checkInWith(checkInNumber(invoices), reservationId, guestEmail, roomId)

(* reservationsRouter.calculateSubTotal *)
calculateSubTotal(reservationId, checkInDate, checkOutDate) ==
    LET totalDays == dayjsDiffDays(checkOutDate, checkInDate)
    IN
    /\ IF reservationId \notin Indices(reservations)
       THEN /\ result' = Done("calculateSubTotal", "INTERNAL_SERVER_ERROR",
                              reservationId, Null, Null)
            /\ UNCHANGED reservations
       ELSE LET room == reservations[reservationId].roomId
                subTotal == IF room # Null THEN dailyRateUSD(room) * totalDays ELSE 0
            IN /\ reservations' = [reservations EXCEPT
                      ![reservationId].subTotalUSD = subTotal,
                      ![reservationId].status = "FINAL_BILL"]
               /\ result' = [Done("calculateSubTotal", "OK", reservationId, room,
                                  Null)
                        EXCEPT !.checkIn = checkInDate, !.checkOut = checkOutDate]
    /\ UNCHANGED <<rooms, guests, invoices, orders, issued>>

(* a checkOut whose nested room update is missing *)
checkOutKeepsRoom(reservationId) ==
    /\ IF \/ reservationId \notin Indices(reservations)
          \/ reservations[reservationId].guestId = Null
          \/ reservations[reservationId].roomId = Null
       THEN /\ result' = [Done("checkOut", "INTERNAL_SERVER_ERROR", reservationId,
                              Null, Null)
                        EXCEPT !.before = StatusBefore(reservationId)]
            /\ UNCHANGED <<rooms, guests, reservations>>
       ELSE /\ reservations' = [reservations EXCEPT
                   ![reservationId].status = "CHECKED_OUT"]
            /\ guests' = [guests EXCEPT
                   ![reservations[reservationId].guestId].currentReservationId =
                       EmptyString]
            /\ UNCHANGED rooms
            /\ result' = [Done("checkOut", "OK", reservationId,
                              reservations[reservationId].roomId, Null)
                        EXCEPT !.before = StatusBefore(reservationId)]
    /\ UNCHANGED <<invoices, orders, issued>>

(* reservationsRouter.checkOut *)
checkOut(reservationId) ==
    /\ IF \/ reservationId \notin Indices(reservations)
          \/ reservations[reservationId].guestId = Null
          \/ reservations[reservationId].roomId = Null
       THEN (* a nested update of a relation that is not there fails the write *)
            /\ result' = [Done("checkOut", "INTERNAL_SERVER_ERROR", reservationId,
                              Null, Null)
                        EXCEPT !.before = StatusBefore(reservationId)]
            /\ UNCHANGED <<rooms, guests, reservations>>
       ELSE /\ reservations' = [reservations EXCEPT
                   ![reservationId].status = "CHECKED_OUT"]
            /\ guests' = [guests EXCEPT
                   ![reservations[reservationId].guestId].currentReservationId =
                       EmptyString]
            /\ rooms' = [rooms EXCEPT ![reservations[reservationId].roomId] = "VACANT"]
            /\ result' = [Done("checkOut", "OK", reservationId,
                              reservations[reservationId].roomId, Null)
                        EXCEPT !.before = StatusBefore(reservationId)]
    /\ UNCHANGED <<invoices, orders, issued>>

(* ------------------------------ invoices ------------------------------- *)
(* the reservation rows of `reservations: { createMany: { data } }` *)
ReservationRows(reservationData, guestId, invoiceId) ==
    [k \in Indices(reservationData) |->
        [status |-> reservationData[k].status, paymentStatus |-> "UNPAID",
         subTotalUSD |-> IF reservationData[k].subTotalUSD = NullUSD
                         THEN 0 ELSE reservationData[k].subTotalUSD,
         guestId |-> guestId, roomId |-> Null, invoiceId |-> invoiceId,
         reservationItemId |-> reservationData[k].reservationItemId]]

(* invoiceRouter.create from its guest step on, with xprisma.invoice.create and
   the invoice number it computed from the latest invoice it read *)
invoiceCreateWith(invoiceNumber, inputGuestId, email, inputReservations) ==
    LET formattedInvoiceNumber == FormatInvoiceNumber(invoiceNumber)
        invoiceId == Len(invoices) + 1
    IN
    /\ Len(invoices) < MaxInvoices
    /\ Len(reservations) + Len(inputReservations) <= MaxReservations
    /\ IF inputGuestId = Null /\ GuestEmailTaken(guests, email)
       THEN /\ result' = [Done("invoiceCreate", "CONFLICT", Null, Null, email) EXCEPT !.guest = inputGuestId,
                              !.specs = inputReservations]
            /\ UNCHANGED <<guests, reservations, invoices, issued>>
       ELSE IF inputGuestId # Null /\ inputGuestId \notin Indices(guests)
       THEN /\ result' = [Done("invoiceCreate", "UNPROCESSABLE_CONTENT", Null, Null,
                              email) EXCEPT !.guest = inputGuestId,
                              !.specs = inputReservations]
            /\ UNCHANGED <<guests, reservations, invoices, issued>>
       ELSE LET guestsAfter ==
                    IF inputGuestId = Null
                    THEN Append(guests, [email |-> email, currentReservationId |-> Null])
                    ELSE guests
                guestId == IF inputGuestId = Null THEN Len(guests) + 1 ELSE inputGuestId
            IN
            /\ guests' = guestsAfter
            /\ IF InvoiceNumberTaken(invoices, formattedInvoiceNumber, invoiceId)
               THEN (* the insert is rejected; the guest step is not undone *)
                    /\ result' = [Done("invoiceCreate", "INTERNAL_SERVER_ERROR", Null,
                                      Null, email) EXCEPT !.guest = inputGuestId,
                              !.specs = inputReservations]
                    /\ UNCHANGED <<reservations, invoices, issued>>
               ELSE LET ress == reservations \o
                                ReservationRows(inputReservations, guestId, invoiceId)
                        invs == Append(invoices,
                                [invoiceNumber |-> formattedInvoiceNumber,
                                 status |-> "UNPAID", totalUSD |-> NullUSD,
                                 remainingBalanceUSD |-> NullUSD, guestId |-> guestId])
                    IN /\ reservations' = ress
                       /\ invoices' = updateInvoiceTotal(invs, ress, orders, invoiceId)
                       /\ issued' = Append(issued, invoiceNumber)
                       /\ result' = [Done("invoiceCreate", "OK", invoiceId, Null, email) EXCEPT !.guest = inputGuestId,
                              !.specs = inputReservations]
    /\ UNCHANGED <<rooms, orders>>

(* the invoice number Invoice.create computes from the invoices it reads *)
invoiceCreateNumber(invs) ==
    NextInvoiceNumber(invs,
        LatestInvoice(invs, {i \in Indices(invs) : invs[i].status # "CANCELLED"}),
        ManualBase)

(* invoiceRouter.create *)
invoiceCreate(inputGuestId, email, inputReservations) ==
    invoiceCreateWith(invoiceCreateNumber(invoices), inputGuestId, email,
                      inputReservations)

(* invoiceRouter.updateStatus, with xprisma.invoice.update *)
updateStatus(id, status) ==
    /\ IF status # "CANCELLED"
       THEN (* the hook never runs the query: nothing is written *)
            /\ result' = [Done("updateStatus", "OK", id, Null, Null) EXCEPT !.status = status]
            /\ UNCHANGED <<reservations, invoices, orders>>
       ELSE LET newNumber == generateCancelledInvoiceNumber(invoices)
            IN IF id \notin Indices(invoices)
               THEN /\ result' = [Done("updateStatus", "INTERNAL_SERVER_ERROR", id, Null,
                                      Null) EXCEPT !.status = status]
                    /\ UNCHANGED <<reservations, invoices, orders>>
               ELSE /\ orders' = [o \in Indices(orders) |->
                           IF orders[o].invoiceId = id /\ orders[o].status = "UNPAID"
                           THEN [orders[o] EXCEPT !.status = status] ELSE orders[o]]
                    /\ reservations' = [r \in Indices(reservations) |->
                           IF reservations[r].invoiceId = id
                           THEN [reservations[r] EXCEPT !.paymentStatus = status]
                           ELSE reservations[r]]
                    /\ IF InvoiceNumberTaken(invoices, newNumber, id)
                       THEN /\ invoices' = [invoices EXCEPT ![id].status = status]
                            /\ result' = [Done("updateStatus", "INTERNAL_SERVER_ERROR",
                                              id, Null, Null) EXCEPT !.status = status]
                       ELSE /\ invoices' = [invoices EXCEPT
                                   ![id].status = status,
                                   ![id].invoiceNumber = newNumber]
                            /\ result' = [Done("updateStatus", "OK", id, Null, Null) EXCEPT !.status = status]
    /\ UNCHANGED <<rooms, guests, issued>>

(* ------------------------------- orders -------------------------------- *)
(* an order hook that recomputes the invoice before it inserts the order *)
orderCreateRecomputesFirst(invoiceId, subTotalUSD) ==
    /\ Len(orders) < MaxOrders
    /\ orders' = Append(orders, [status |-> "UNPAID", subTotalUSD |-> subTotalUSD,
                                 invoiceId |-> invoiceId])
    /\ invoices' = IF invoiceId # Null
                   THEN updateInvoiceTotal(invoices, reservations, orders, invoiceId)
                   ELSE invoices
    /\ result' = [Done("orderCreate",
                       IF invoiceId # Null
                       THEN updateInvoiceTotalCode(invoices, invoiceId) ELSE "OK",
                       Len(orders) + 1, Null, Null)
                  EXCEPT !.invoice = invoiceId]
    /\ UNCHANGED <<rooms, guests, reservations, issued>>

(* xprisma.order.create *)
orderCreate(invoiceId, subTotalUSD) ==
    /\ Len(orders) < MaxOrders
    /\ LET ords == Append(orders, [status |-> "UNPAID", subTotalUSD |-> subTotalUSD,
                                   invoiceId |-> invoiceId])
       IN /\ orders' = ords
          /\ invoices' = IF invoiceId # Null
                         THEN updateInvoiceTotal(invoices, reservations, ords, invoiceId)
                         ELSE invoices
          /\ result' = [Done("orderCreate",
                             IF invoiceId # Null
                             THEN updateInvoiceTotalCode(invoices, invoiceId) ELSE "OK",
                             Len(ords), Null, Null)
                        EXCEPT !.invoice = invoiceId]
    /\ UNCHANGED <<rooms, guests, reservations, issued>>

(* an order hook that writes the order and leaves the invoice as it is *)
orderUpdateSkipsRecompute(orderId, status) ==
    /\ IF orderId \notin Indices(orders)
       THEN /\ result' = [Done("orderUpdate", "INTERNAL_SERVER_ERROR", orderId, Null,
                              Null) EXCEPT !.status = status]
            /\ UNCHANGED <<orders, invoices>>
       ELSE /\ orders' = [orders EXCEPT ![orderId].status = status]
            /\ invoices' = invoices
            /\ result' = [Done("orderUpdate", "OK", orderId, Null, Null)
                          EXCEPT !.status = status,
                                 !.before = orders[orderId].status]
    /\ UNCHANGED <<rooms, guests, reservations, issued>>

(* xprisma.order.update with data { status } *)
orderUpdate(orderId, status) ==
    /\ IF orderId \notin Indices(orders)
       THEN /\ result' = [Done("orderUpdate", "INTERNAL_SERVER_ERROR", orderId, Null,
                              Null) EXCEPT !.status = status]
            /\ UNCHANGED <<orders, invoices>>
       ELSE LET ords == [orders EXCEPT ![orderId].status = status]
            IN /\ orders' = ords
               /\ invoices' = IF ords[orderId].invoiceId # Null
                              THEN updateInvoiceTotal(invoices, reservations, ords,
                                                      ords[orderId].invoiceId)
                              ELSE invoices
               /\ result' = [Done("orderUpdate",
                                  IF ords[orderId].invoiceId # Null
                                  THEN updateInvoiceTotalCode(invoices,
                                                              ords[orderId].invoiceId)
                                  ELSE "OK",
                                  orderId, Null, Null)
                        EXCEPT !.status = status,
                               !.before = orders[orderId].status]
    /\ UNCHANGED <<rooms, guests, reservations, issued>>

(* ------------------- reservations, extended client -------------------- *)
(* xprisma.reservation.create with data { subTotalUSD, invoiceId } *)
reservationCreate(invoiceId, subTotalUSD) ==
    /\ Len(reservations) < MaxReservations
    /\ LET ress == Append(reservations,
                       [status |-> "CONFIRMED", paymentStatus |-> "UNPAID",
                        subTotalUSD |-> subTotalUSD, guestId |-> Null,
                        roomId |-> Null, invoiceId |-> invoiceId,
                        reservationItemId |-> Null])
       IN /\ reservations' = ress
          /\ invoices' = IF invoiceId # Null
                         THEN updateInvoiceTotal(invoices, ress, orders, invoiceId)
                         ELSE invoices
          /\ result' = [Done("reservationCreate",
                             IF invoiceId # Null
                             THEN updateInvoiceTotalCode(invoices, invoiceId) ELSE "OK",
                             Len(ress), Null, Null)
                        EXCEPT !.invoice = invoiceId]
    /\ UNCHANGED <<rooms, guests, orders, issued>>

(* xprisma.reservation.update with data { paymentStatus, invoiceId }, each a
   plain column value or left out ("undefined" / Undefined) *)
reservationUpdate(id, paymentStatus, newInvoiceId) ==
    /\ IF id \notin Indices(reservations)
       THEN /\ result' = [Done("reservationUpdate", "INTERNAL_SERVER_ERROR", id, Null,
                               Null)
                          EXCEPT !.status = paymentStatus, !.invoice = newInvoiceId]
            /\ UNCHANGED <<reservations, invoices>>
       ELSE LET currentReservation == reservations[id]
                updatedReservation ==
                    [currentReservation EXCEPT
                        !.paymentStatus = IF paymentStatus = "undefined"
                                          THEN @ ELSE paymentStatus,
                        !.invoiceId = IF newInvoiceId = Undefined
                                      THEN @ ELSE newInvoiceId]
                ress == [reservations EXCEPT ![id] = updatedReservation]
                (* read back after the write *)
                previousReservation == ress[id]
                (* the invoices to recompute, in the order of the calls *)
                forStatus ==
                    IF /\ paymentStatus # "undefined"
                       /\ previousReservation.paymentStatus # paymentStatus
                       /\ previousReservation.invoiceId # Null
                    THEN <<previousReservation.invoiceId>> ELSE <<>>
                forInvoice ==
                    IF /\ newInvoiceId # Undefined /\ newInvoiceId # Null
                       /\ currentReservation.invoiceId # newInvoiceId
                    THEN (IF currentReservation.invoiceId # Null
                          THEN <<currentReservation.invoiceId>> ELSE <<>>)
                         \o <<newInvoiceId>>
                    ELSE <<>>
                calls == forStatus \o forInvoice
            IN /\ reservations' = ress
               /\ invoices' = RecomputeAll(invoices, ress, orders, calls)
               /\ result' = [Done("reservationUpdate",
                                  RecomputeAllCode(invoices, calls), id, Null, Null)
                             EXCEPT !.status = paymentStatus, !.invoice = newInvoiceId]
    /\ UNCHANGED <<rooms, guests, orders, issued>>

(* ------------------------------ requests ------------------------------- *)
(* the reservation specifications a request may carry *)
ReservationSpecs ==
    {[subTotalUSD |-> 2, status |-> "CONFIRMED", reservationItemId |-> 1],
     [subTotalUSD |-> NullUSD, status |-> "CHECKED_IN", reservationItemId |-> 2]}

ReservationInputs ==
    {<<>>} \cup {<<a>> : a \in ReservationSpecs}
           \cup {<<p[1], p[2]>> : p \in {q \in ReservationSpecs \X ReservationSpecs :
                                               q[1] # q[2]}}

(* the ids a request may name: the rows of the table and one unknown id *)
Ids(table, max) == 1..(IF Len(table) < max THEN Len(table) + 1 ELSE max)

(* e-mails are only compared for equality and guests are never deleted, so the
   e-mails no guest holds are interchangeable: a request carries an e-mail some
   guest holds or the first one no guest holds *)
EmailChoices ==
    LET held == {guests[g].email : g \in Indices(guests)}
    IN held \cup {e \in Emails \ held : \A f \in Emails \ held : e <= f}

(* likewise the rooms no reservation was ever put in are interchangeable: a
   request names a room some reservation refers to, the first room none refers
   to, or a room that does not exist *)
RoomChoices ==
    LET used == {reservations[r].roomId : r \in Indices(reservations)} \cap Rooms
    IN used \cup {x \in Rooms \ used : \A y \in Rooms \ used : x <= y}
            \cup (RoomIds \ Rooms)

(* one request is served at a time; a run serves at most `budget` requests *)
Tick(budget) == steps < budget /\ steps' = steps + 1 /\ UNCHANGED inflight

Serve(budget) ==
    \/ \E g \in {Null} \cup Indices(guests), ci \in Dates, co \in Dates,
          it \in ReservationItemIds :
           ci <= co /\ Tick(budget) /\ createReservation(g, ci, co, it)
    \/ \E r \in Ids(reservations, MaxReservations), e \in EmailChoices, rm \in RoomChoices :
           Tick(budget) /\ checkIn(r, e, rm)
    \/ \E r \in Ids(reservations, MaxReservations), ci \in Dates, co \in Dates :
           ci <= co /\ Tick(budget) /\ calculateSubTotal(r, ci, co)
    \/ \E r \in Ids(reservations, MaxReservations) : Tick(budget) /\ checkOut(r)
    \/ \E e \in EmailChoices, rs \in ReservationInputs : Tick(budget) /\ invoiceCreate(Null, e, rs)
    \/ \E g \in Ids(guests, MaxEmails), rs \in ReservationInputs :
           Tick(budget) /\ invoiceCreate(g, IF g \in Indices(guests) THEN guests[g].email ELSE 1, rs)
    \/ \E i \in Ids(invoices, MaxInvoices), st \in PaymentStatus :
           Tick(budget) /\ updateStatus(i, st)
    \/ \E i \in {Null} \cup Indices(invoices) : Tick(budget) /\ orderCreate(i, 1)
    \/ \E o \in Ids(orders, MaxOrders), st \in PaymentStatus : Tick(budget) /\ orderUpdate(o, st)

Next == Serve(MaxSteps)

Spec == Init /\ [][Next]_vars

(* the same system followed over longer runs *)
NextLong == Serve(MaxLongSteps)

SpecLong == Init /\ [][NextLong]_vars

(* the invoice references a create or update may store: the invoices of the
   table and an id that no invoice has or will have *)
InvoiceRefs == Indices(invoices) \cup {MaxInvoices + 1}

(* the extended client used directly: creates and updates of reservations and
   orders, with invoices made by invoiceRouter.create for new guests, empty or
   with one reservation *)
UseClient(budget) ==
    \/ \E e \in {x \in EmailChoices : ~GuestEmailTaken(guests, x)},
          rs \in {<<>>} \cup {<<a>> : a \in ReservationSpecs} :
           Tick(budget) /\ invoiceCreate(Null, e, rs)
    \/ \E i \in {Null} \cup InvoiceRefs : Tick(budget) /\ reservationCreate(i, 2)
    \/ \E r \in Ids(reservations, MaxReservations),
          st \in {"undefined"} \cup PaymentStatus,
          i \in {Undefined, Null} \cup InvoiceRefs :
           Tick(budget) /\ reservationUpdate(r, st, i)
    \/ \E i \in {Null} \cup InvoiceRefs : Tick(budget) /\ orderCreate(i, 1)
    \/ \E o \in Ids(orders, MaxOrders), st \in PaymentStatus :
           Tick(budget) /\ orderUpdate(o, st)

NextHooks == UseClient(MaxHookSteps)

SpecHooks == Init /\ [][NextHooks]_vars

(* -------------------- handlers between their awaits -------------------- *)
Returned(p) ==
    inflight' = [inflight EXCEPT ![p].pc = "done", ![p].code = result'.code,
                                 ![p].after = invoices', ![p].doneAt = steps + 1]

(* invoiceRouter.create up to `invoiceNumber = ...` *)
invoiceCreateRead(p, inputGuestId, email, inputReservations) ==
    /\ inflight[p].pc # "read"
    /\ inflight' = [inflight EXCEPT ![p] =
           [Idle EXCEPT !.pc = "read", !.op = "invoiceCreate",
                        !.number = invoiceCreateNumber(invoices), !.table = invoices,
                        !.guest = inputGuestId, !.email = email,
                        !.specs = inputReservations, !.readAt = steps + 1]]
    /\ result' = Done("invoiceCreateRead", "OK", p, Null, email)
    /\ UNCHANGED <<rooms, guests, reservations, invoices, orders, issued>>

(* invoiceRouter.create from there to its return *)
invoiceCreateInsert(p) ==
    /\ inflight[p].pc = "read" /\ inflight[p].op = "invoiceCreate"
    /\ invoiceCreateWith(inflight[p].number, inflight[p].guest, inflight[p].email,
                         inflight[p].specs)
    /\ Returned(p)

(* reservationsRouter.checkIn up to `formattedInvoiceNumber = ...` *)
checkInRead(p, reservationId, guestEmail, roomId) ==
    /\ inflight[p].pc # "read"
    /\ inflight' = [inflight EXCEPT ![p] =
           [Idle EXCEPT !.pc = "read", !.op = "checkIn",
                        !.number = checkInNumber(invoices), !.table = invoices,
                        !.reservation = reservationId, !.email = guestEmail,
                        !.room = roomId, !.readAt = steps + 1]]
    /\ result' = Done("checkInRead", "OK", p, roomId, guestEmail)
    /\ UNCHANGED <<rooms, guests, reservations, invoices, orders, issued>>

(* reservationsRouter.checkIn from there to its return *)
checkInWrite(p) ==
    /\ inflight[p].pc = "read" /\ inflight[p].op = "checkIn"
    /\ checkInWith(inflight[p].number, inflight[p].reservation, inflight[p].email,
                   inflight[p].room)
    /\ Returned(p)

(* the four aggregate queries of updateInvoiceTotal(invoiceId) *)
Aggregated(p, op, ress, ords, invoiceId) ==
    [Idle EXCEPT !.pc = "read", !.op = op, !.invoice = invoiceId,
                 !.balance = updateInvoiceTotal(invoices, ress, ords,
                                 invoiceId)[invoiceId].remainingBalanceUSD,
                 !.total = updateInvoiceTotal(invoices, ress, ords,
                               invoiceId)[invoiceId].totalUSD,
                 !.readAt = steps + 1]

(* xprisma.order.create up to the prisma.invoice.update of updateInvoiceTotal *)
orderCreateBegin(p, invoiceId, subTotalUSD) ==
    /\ inflight[p].pc # "read"
    /\ Len(orders) < MaxOrders
    /\ invoiceId \in Indices(invoices)
    /\ LET ords == Append(orders, [status |-> "UNPAID", subTotalUSD |-> subTotalUSD,
                                   invoiceId |-> invoiceId])
       IN /\ orders' = ords
          /\ inflight' = [inflight EXCEPT ![p] =
                 Aggregated(p, "orderCreate", reservations, ords, invoiceId)]
          /\ result' = [Done("orderCreateBegin", "OK", Len(ords), Null, Null)
                        EXCEPT !.invoice = invoiceId]
    /\ UNCHANGED <<rooms, guests, reservations, invoices, issued>>

(* xprisma.order.update up to the prisma.invoice.update of updateInvoiceTotal *)
orderUpdateBegin(p, orderId, status) ==
    /\ inflight[p].pc # "read"
    /\ orderId \in Indices(orders)
    /\ orders[orderId].invoiceId \in Indices(invoices)
    /\ LET ords == [orders EXCEPT ![orderId].status = status]
       IN /\ orders' = ords
          /\ inflight' = [inflight EXCEPT ![p] =
                 Aggregated(p, "orderUpdate", reservations, ords,
                            ords[orderId].invoiceId)]
          /\ result' = [Done("orderUpdateBegin", "OK", orderId, Null, Null)
                        EXCEPT !.status = status,
                               !.invoice = ords[orderId].invoiceId]
    /\ UNCHANGED <<rooms, guests, reservations, invoices, issued>>

(* a recomputation that aggregates again when it writes *)
recomputeWriteRereads(p) ==
    /\ inflight[p].pc = "read" /\ inflight[p].op \in {"orderCreate", "orderUpdate"}
    /\ invoices' = updateInvoiceTotal(invoices, reservations, orders,
                                      inflight[p].invoice)
    /\ result' = [Done(inflight[p].op, "OK", Null, Null, Null)
                  EXCEPT !.invoice = inflight[p].invoice]
    /\ Returned(p)
    /\ UNCHANGED <<rooms, guests, reservations, orders, issued>>

(* the prisma.invoice.update of updateInvoiceTotal, and the return of the hook *)
recomputeWrite(p) ==
    /\ inflight[p].pc = "read" /\ inflight[p].op \in {"orderCreate", "orderUpdate"}
    /\ invoices' = [invoices EXCEPT
                       ![inflight[p].invoice].totalUSD = inflight[p].total,
                       ![inflight[p].invoice].remainingBalanceUSD = inflight[p].balance]
    /\ result' = [Done(inflight[p].op, "OK", Null, Null, Null)
                  EXCEPT !.invoice = inflight[p].invoice]
    /\ Returned(p)
    /\ UNCHANGED <<rooms, guests, reservations, orders, issued>>

Tock(budget) == steps < budget /\ steps' = steps + 1

(* the requests in flight are interchangeable: a new one takes the first
   place that is free *)
FreePlace ==
    {p \in Requests : /\ inflight[p].pc # "read"
                      /\ \A q \in Requests : inflight[q].pc # "read" => p <= q}

(* two invoice-creating requests at a time, each served await by await *)
Allocate(budget) ==
    \/ Tick(budget) /\ createReservation(Null, 0, 0, 1)
    \/ \E p \in FreePlace, e \in Emails,
          rs \in {<<>>} \cup {<<a>> : a \in ReservationSpecs} :
           Tock(budget) /\ invoiceCreateRead(p, Null, e, rs)
    \/ \E p \in Requests : Tock(budget) /\ invoiceCreateInsert(p)
    \/ \E p \in FreePlace, r \in Indices(reservations), e \in Emails,
          rm \in RoomChoices \cap Rooms :
           Tock(budget) /\ checkInRead(p, r, e, rm)
    \/ \E p \in Requests : Tock(budget) /\ checkInWrite(p)

NextRace == Allocate(MaxRaceSteps)

SpecRace == Init /\ [][NextRace]_vars

(* two order hooks at a time, each served await by await, on invoices made by
   invoiceRouter.create *)
Reconcile(budget) ==
    \/ \E e \in EmailChoices, rs \in ReservationInputs :
           Tick(budget) /\ invoiceCreate(Null, e, rs)
    \/ \E p \in FreePlace, i \in Indices(invoices) :
           Tock(budget) /\ orderCreateBegin(p, i, 1)
    \/ \E p \in FreePlace, o \in Indices(orders), st \in PaymentStatus :
           Tock(budget) /\ orderUpdateBegin(p, o, st)
    \/ \E p \in Requests : Tock(budget) /\ recomputeWrite(p)

NextHookRace == Reconcile(MaxRaceSteps)

SpecHookRace == Init /\ [][NextHookRace]_vars

(* ======================= properties of the design ====================== *)
RECURSIVE SumTo(_, _)
SumTo(f, n) == IF n = 0 THEN 0 ELSE f[n] + SumTo(f, n - 1)

(* the sub-totals of the reservations / orders of invoice i that count *)
ReservationShare(i, counts(_)) ==
    SumTo([r \in Indices(reservations) |->
              IF reservations[r].invoiceId = i /\ counts(reservations[r].paymentStatus)
              THEN reservations[r].subTotalUSD ELSE 0], Len(reservations))

OrderShare(i, counts(_)) ==
    SumTo([o \in Indices(orders) |->
              IF orders[o].invoiceId = i /\ counts(orders[o].status)
              THEN orders[o].subTotalUSD ELSE 0], Len(orders))

(* a total that was never written (null) is read as zero *)
Amount(usd) == IF usd = NullUSD THEN 0 ELSE usd

NotCancelled(st) == st # "CANCELLED"
Unpaid(st) == st = "UNPAID"

(* a request was served in this step *)
Served(op) == steps' = steps + 1 /\ result'.op = op

Active(invs, i) == invs[i].status # "CANCELLED"

(* C1: every invoice's stored totalUSD equals the sum of the sub-totals of its
   linked reservations and orders that are not CANCELLED, after any sequence of
   completed requests. *)
C1_TotalMatchesConstituents ==
    \A i \in Indices(invoices) :
        Amount(invoices[i].totalUSD) =
            ReservationShare(i, NotCancelled) + OrderShare(i, NotCancelled)

(* C2: every invoice's stored remainingBalanceUSD equals the sum of the
   sub-totals of its linked reservations and orders that are UNPAID, after any
   sequence of completed requests. *)
C2_BalanceMatchesUnpaid ==
    \A i \in Indices(invoices) :
        Amount(invoices[i].remainingBalanceUSD) =
            ReservationShare(i, Unpaid) + OrderShare(i, Unpaid)

(* C3 as stated: the numbers issued by the normal sequence (Invoice.create and
   checkIn) are strictly increasing, so none is issued twice. *)
C3_IssuedStrictlyIncreasing ==
    \A k \in 1..(Len(issued) - 1) : issued[k] < issued[k + 1]

(* C3 as amended: a number newly issued by the normal sequence is greater than
   the number of every invoice that is not CANCELLED when it is issued, and it
   is the number the new invoice carries. *)
C3_IssuedAboveActive ==
    [][Len(issued') > Len(issued) =>
          /\ Len(invoices') = Len(invoices) + 1
          /\ parseInt(invoices'[Len(invoices')].invoiceNumber) = issued'[Len(issued')]
          /\ \A i \in Indices(invoices) :
                Active(invoices, i) =>
                    parseInt(invoices[i].invoiceNumber) < issued'[Len(issued')]]_vars

(* a number has been issued a second time, after its first holder was cancelled *)
C3_Witness ==
    \E k \in Indices(issued) : \E l \in Indices(issued) : k < l /\ issued[k] = issued[l]

(* C4: when an invoice is cancelled, the number drawn for it from the cancelled
   sequence differs from the number of every other invoice that is active. *)
C4_CancelledNumberFree ==
    [][(/\ Served("updateStatus")
        /\ result'.status = "CANCELLED"
        /\ result'.id \in Indices(invoices)
        /\ Active(invoices, result'.id))
       => \A j \in Indices(invoices) :
             (j # result'.id /\ Active(invoices, j)) =>
                 invoices[j].invoiceNumber # generateCancelledInvoiceNumber(invoices)]_vars

(* the invoices other than i are what they were *)
OtherInvoicesUnchanged(i) ==
    \A j \in Indices(invoices) : j # i => invoices'[j] = invoices[j]

(* C5: checkIn of a CONFIRMED reservation, with an existing room and a rate
   product, makes the reservation CHECKED_IN and the room OCCUPIED and creates
   exactly one invoice, linked to the reservation and its guest, numbered one
   above the latest invoice number (or the base) and unlike any other invoice. *)
C5_CheckInConfirmed ==
    [][(/\ Served("checkIn")
        /\ result'.id \in Indices(reservations)
        /\ reservations[result'.id].status = "CONFIRMED"
        /\ reservations[result'.id].reservationItemId \in ReservationItems
        /\ result'.room \in Rooms)
       => LET r == result'.id
              new == Len(invoices) + 1
              numbers == {parseInt(invoices[i].invoiceNumber) : i \in Indices(invoices)}
          IN /\ reservations'[r].status = "CHECKED_IN"
             /\ rooms'[result'.room] = "OCCUPIED"
             /\ Len(invoices') = new
             /\ OtherInvoicesUnchanged(new)
             /\ reservations'[r].invoiceId = new
             /\ reservations'[r].guestId # Null
             /\ invoices'[new].guestId = reservations'[r].guestId
             /\ \A n \in numbers : n < parseInt(invoices'[new].invoiceNumber)
             /\ numbers # {} => parseInt(invoices'[new].invoiceNumber) - 1 \in numbers
             /\ numbers = {} => parseInt(invoices'[new].invoiceNumber) = CheckInBase
             /\ \A j \in Indices(invoices) :
                   invoices'[j].invoiceNumber # invoices'[new].invoiceNumber]_vars

(* C6 as stated: checkOut of a CHECKED_IN reservation makes it CHECKED_OUT,
   makes its room VACANT and clears its guest's current-reservation reference,
   leaving every other room, guest and reservation unchanged. *)
C6_CheckOutCheckedIn ==
    [][(/\ Served("checkOut")
        /\ result'.id \in Indices(reservations)
        /\ reservations[result'.id].status = "CHECKED_IN")
       => LET r == result'.id
              room == reservations[r].roomId
              guest == reservations[r].guestId
          IN /\ reservations'[r].status = "CHECKED_OUT"
             /\ room \in Rooms /\ rooms'[room] = "VACANT"
             /\ guest \in Indices(guests)
             /\ guests'[guest].currentReservationId \notin Indices(reservations)
             /\ \A x \in Rooms : x # room => rooms'[x] = rooms[x]
             /\ Len(guests') = Len(guests)
             /\ \A g \in Indices(guests) : g # guest => guests'[g] = guests[g]
             /\ Len(reservations') = Len(reservations)
             /\ \A x \in Indices(reservations) :
                   x # r => reservations'[x] = reservations[x]]_vars

(* C6 as amended: the same, for a CHECKED_IN reservation that has a room and a
   guest attached; for one without a room checkOut fails and writes nothing. *)
C6_CheckOutWithRoom ==
    [][(/\ Served("checkOut")
        /\ result'.id \in Indices(reservations)
        /\ reservations[result'.id].status = "CHECKED_IN")
       => LET r == result'.id
              room == reservations[r].roomId
              guest == reservations[r].guestId
          IN IF room = Null \/ guest = Null
             THEN /\ result'.code # "OK"
                  /\ UNCHANGED <<rooms, guests, reservations, invoices, orders>>
             ELSE /\ result'.code = "OK"
                  /\ reservations'[r].status = "CHECKED_OUT"
                  /\ rooms'[room] = "VACANT"
                  /\ guests'[guest].currentReservationId \notin Indices(reservations)
                  /\ guests'[guest].email = guests[guest].email
                  /\ \A x \in Rooms : x # room => rooms'[x] = rooms[x]
                  /\ Len(guests') = Len(guests)
                  /\ \A g \in Indices(guests) : g # guest => guests'[g] = guests[g]
                  /\ Len(reservations') = Len(reservations)
                  /\ reservations' =
                        [reservations EXCEPT ![r].status = "CHECKED_OUT"]
                  /\ UNCHANGED <<invoices, orders>>]_vars

(* a reservation that checkIn had put in a room has just been checked out *)
C6_Witness ==
    /\ result.op = "checkOut" /\ result.code = "OK" /\ result.before = "CHECKED_IN"
    /\ reservations[result.id].status = "CHECKED_OUT"
    /\ rooms[result.room] = "VACANT"
    /\ guests[reservations[result.id].guestId].currentReservationId = EmptyString

ClaimedEdges ==
    {<<"CONFIRMED", "CHECKED_IN">>, <<"CHECKED_IN", "CHECKED_OUT">>,
     <<"CONFIRMED", "CANCELLED">>, <<"CHECKED_IN", "CANCELLED">>}

ClaimedStatuses == {"CONFIRMED", "CHECKED_IN", "CHECKED_OUT", "CANCELLED"}

(* C7: a reservation's status moves among CONFIRMED, CHECKED_IN, CHECKED_OUT
   and CANCELLED only along CONFIRMED -> CHECKED_IN, CHECKED_IN -> CHECKED_OUT,
   CONFIRMED -> CANCELLED and CHECKED_IN -> CANCELLED (the billing-locked
   status that calculateSubTotal sets is left aside). *)
C7_StatusEdges ==
    [][\A r \in Indices(reservations) :
          (/\ reservations'[r].status # reservations[r].status
           /\ reservations[r].status \in ClaimedStatuses
           /\ reservations'[r].status \in ClaimedStatuses)
          => <<reservations[r].status, reservations'[r].status>> \in ClaimedEdges]_vars

(* C8: Invoice.create without a guestId, with the e-mail of an existing guest,
   fails with CONFLICT and leaves the Invoice, Guest and Reservation tables as
   they were. *)
C8_DuplicateEmailConflict ==
    [][(/\ Served("invoiceCreate")
        /\ result'.guest = Null
        /\ \E g \in Indices(guests) : guests[g].email = result'.email)
       => /\ result'.code = "CONFLICT"
          /\ UNCHANGED <<invoices, guests, reservations>>]_vars

(* Invoice.create has just been refused for an e-mail a guest already has,
   with invoices and reservations in the tables *)
C8_Witness ==
    /\ result.op = "invoiceCreate" /\ result.code = "CONFLICT" /\ result.guest = Null
    /\ \E g \in Indices(guests) : guests[g].email = result.email
    /\ invoices # <<>>

(* the sub-total a reservation specification asks for *)
SpecSubTotal(spec) == IF spec.subTotalUSD = NullUSD THEN 0 ELSE spec.subTotalUSD

(* C9: a successful Invoice.create with reservation specifications R adds
   exactly one invoice, persists every reservation of R linked to it and to the
   guest, and leaves the invoice's totalUSD and remainingBalanceUSD equal to
   the sum of R's sub-totals (both zero for an empty R). *)
C9_InvoiceCreateTotals ==
    [][(Served("invoiceCreate") /\ result'.code = "OK")
       => LET R == result'.specs
              new == Len(invoices) + 1
              sum == SumTo([k \in Indices(R) |-> SpecSubTotal(R[k])], Len(R))
          IN /\ result'.id = new
             /\ Len(invoices') = new
             /\ OtherInvoicesUnchanged(new)
             /\ Len(reservations') = Len(reservations) + Len(R)
             /\ \A x \in Indices(reservations) : reservations'[x] = reservations[x]
             /\ \A k \in Indices(R) :
                   LET row == reservations'[Len(reservations) + k]
                   IN /\ row.invoiceId = new
                      /\ row.guestId = invoices'[new].guestId
                      /\ row.guestId \in Indices(guests')
                      /\ result'.guest # Null => row.guestId = result'.guest
                      /\ result'.guest = Null => guests'[row.guestId].email = result'.email
                      /\ row.status = R[k].status
                      /\ row.reservationItemId = R[k].reservationItemId
                      /\ row.subTotalUSD = SpecSubTotal(R[k])
             /\ invoices'[new].totalUSD = sum
             /\ invoices'[new].remainingBalanceUSD = sum]_vars

(* an invoice has just been created with two reservations and a total above zero *)
C9_Witness ==
    /\ result.op = "invoiceCreate" /\ result.code = "OK" /\ Len(result.specs) = 2
    /\ invoices[result.id].totalUSD > 0
    /\ Cardinality({r \in Indices(reservations) :
                       reservations[r].invoiceId = result.id}) = 2

(* C10: checkIn of a CONFIRMED reservation with the e-mail of an existing guest
   succeeds and attaches that guest to the reservation, creating no second
   guest with the e-mail. *)
C10_CheckInAttachesGuest ==
    [][(/\ Served("checkIn")
        /\ result'.id \in Indices(reservations)
        /\ reservations[result'.id].status = "CONFIRMED"
        /\ result'.room \in Rooms
        /\ reservations[result'.id].reservationItemId \in ReservationItems
        /\ \E g \in Indices(guests) : guests[g].email = result'.email)
       => /\ result'.code = "OK"
          /\ Len(guests') = Len(guests)
          /\ reservations'[result'.id].guestId \in Indices(guests)
          /\ guests[reservations'[result'.id].guestId].email = result'.email]_vars

(* the number of nights of a stay: the calendar-day difference *)
Nights(from, to) == DayOf(to) - DayOf(from)

(* C11: the sub-total createReservation stores is the rate product's daily
   rate times the number of nights, and the sub-total calculateSubTotal stores
   for a reservation in a room is the room's daily rate times the number of
   nights, the number of nights being the calendar-day difference between
   checkOut and checkIn. *)
C11_SubTotalRateTimesNights ==
    [][/\ (Served("createReservation") /\ result'.code = "OK")
          => reservations'[result'.id].subTotalUSD =
                DailyRate(reservations'[result'.id].reservationItemId)
                    * Nights(result'.checkIn, result'.checkOut)
       /\ (Served("calculateSubTotal") /\ result'.code = "OK" /\ result'.room # Null)
          => reservations'[result'.id].subTotalUSD =
                dailyRateUSD(result'.room) * Nights(result'.checkIn, result'.checkOut)]_vars

(* C12: when the reservation update of a checkIn has been written and the
   reservation then lacks its guest, its room or its rate product, the checkIn
   fails with UNPROCESSABLE_CONTENT and no invoice is created. *)
C12_MissingLinkageUnprocessable ==
    [][(/\ Served("checkIn")
        /\ result'.id \in Indices(reservations)
        /\ reservations'[result'.id] # reservations[result'.id]
        /\ \/ reservations'[result'.id].guestId \notin Indices(guests')
           \/ reservations'[result'.id].roomId \notin Rooms
           \/ reservations'[result'.id].reservationItemId \notin ReservationItems)
       => /\ result'.code = "UNPROCESSABLE_CONTENT"
          /\ UNCHANGED <<invoices, issued>>]_vars

(* a checkIn has just been refused for a reservation without a rate product,
   after the reservation was put in its room *)
C12_Witness ==
    /\ result.op = "checkIn" /\ result.code = "UNPROCESSABLE_CONTENT"
    /\ reservations[result.id].reservationItemId \notin ReservationItems
    /\ reservations[result.id].status = "CHECKED_IN"
    /\ reservations[result.id].roomId = result.room
    /\ rooms[result.room] = "OCCUPIED"

(* an invoice reference that names no invoice of the table *)
Dangling(ref) == ref # Null /\ ref # Undefined /\ ref \notin Indices(invoices)

(* C13: when a hook of the extended client recomputes an invoice and the
   recomputation fails (the invoice it is to write is not there), the create
   or update that triggered it ends with INTERNAL_SERVER_ERROR, not with
   success. *)
C13_FailedRecomputeIsInternal ==
    [][/\ (Served("orderCreate") /\ Dangling(result'.invoice))
          => result'.code = "INTERNAL_SERVER_ERROR"
       /\ (Served("reservationCreate") /\ Dangling(result'.invoice))
          => result'.code = "INTERNAL_SERVER_ERROR"
       /\ (/\ Served("orderUpdate")
           /\ result'.id \in Indices(orders)
           /\ Dangling(orders[result'.id].invoiceId))
          => result'.code = "INTERNAL_SERVER_ERROR"
       /\ (/\ Served("reservationUpdate")
           /\ result'.id \in Indices(reservations)
           /\ result'.invoice \notin {Null, Undefined}
           /\ result'.invoice # reservations[result'.id].invoiceId
           /\ \/ Dangling(result'.invoice)
              \/ Dangling(reservations[result'.id].invoiceId))
          => result'.code = "INTERNAL_SERVER_ERROR"]_vars

(* an order has just been written with a reference to an invoice that is not
   there, and its create was answered with the error of the recomputation *)
C13_Witness ==
    /\ result.op = "orderCreate" /\ result.code = "INTERNAL_SERVER_ERROR"
    /\ result.id \in Indices(orders)
    /\ orders[result.id].invoiceId \notin Indices(invoices)
    /\ orders[result.id].invoiceId # Null

(* the sub-totals of the reservations and orders of invoice i that count *)
SharesOf(ress, ords, i, counts(_)) ==
    SumTo([r \in Indices(ress) |->
              IF ress[r].invoiceId = i /\ counts(ress[r].paymentStatus)
              THEN ress[r].subTotalUSD ELSE 0], Len(ress))
    + SumTo([o \in Indices(ords) |->
              IF ords[o].invoiceId = i /\ counts(ords[o].status)
              THEN ords[o].subTotalUSD ELSE 0], Len(ords))

(* the totals stored on invoice i are the sums over its constituents *)
TotalsMatchIn(invs, ress, ords, i) ==
    /\ invs[i].remainingBalanceUSD = SharesOf(ress, ords, i, Unpaid)
    /\ invs[i].totalUSD = SharesOf(ress, ords, i, NotCancelled)

TotalsMatch(i) == TotalsMatchIn(invoices, reservations, orders, i)

(* the invoices a successful create, or update of an order, has recomputed *)
Recomputed ==
    IF result.code # "OK" THEN {}
    ELSE IF result.op \in {"orderCreate", "reservationCreate"}
    THEN {result.invoice} \cap Indices(invoices)
    ELSE IF result.op = "orderUpdate"
    THEN {orders[result.id].invoiceId} \cap Indices(invoices)
    ELSE IF result.op = "invoiceCreate"
    THEN {result.id}
    ELSE {}

(* C16: after updateInvoiceTotal(i) has run, invoice i's remainingBalanceUSD is
   the sum of the sub-totals of its UNPAID reservations plus that of its UNPAID
   orders, and its totalUSD the sum over its reservations and orders that are
   not CANCELLED, a sum over no rows counting as zero. *)
C16_RecomputeStoresSums ==
    [][/\ steps' = steps + 1 => (\A i \in Recomputed : TotalsMatch(i))'
       /\ (/\ Served("reservationUpdate") /\ result'.code = "OK"
           /\ result'.id \in Indices(reservations)
           /\ result'.invoice \notin {Null, Undefined}
           /\ result'.invoice # reservations[result'.id].invoiceId)
          => /\ TotalsMatchIn(invoices', reservations', orders', result'.invoice)
             /\ reservations[result'.id].invoiceId # Null
                   => TotalsMatchIn(invoices', reservations', orders',
                                    reservations[result'.id].invoiceId)]_vars

(* an order of an invoice has just been marked PAID: the invoice's total still
   counts it and its remaining balance no longer does *)
C16_Witness ==
    /\ result.op = "orderUpdate" /\ result.code = "OK" /\ result.status = "PAID"
    /\ orders[result.id].invoiceId \in Indices(invoices)
    /\ invoices[orders[result.id].invoiceId].totalUSD
          > invoices[orders[result.id].invoiceId].remainingBalanceUSD
    /\ \E r \in Indices(reservations) :
          reservations[r].invoiceId = orders[result.id].invoiceId

(* the invoice that the hook of this step recomputes, if it is in the table *)
HookTarget ==
    IF Served("orderCreate") \/ Served("reservationCreate")
    THEN {result'.invoice} \cap Indices(invoices)
    ELSE IF Served("orderUpdate") /\ result'.id \in Indices(orders)
    THEN {orders[result'.id].invoiceId} \cap Indices(invoices)
    ELSE IF Served("invoiceCreate") /\ Len(invoices') > Len(invoices)
    THEN {Len(invoices')}
    ELSE {}

(* no reservation and no order of invoice i counts *)
Absent(ress, ords, i, counts(_)) ==
    /\ \A r \in Indices(ress) : ~(ress[r].invoiceId = i /\ counts(ress[r].paymentStatus))
    /\ \A o \in Indices(ords) : ~(ords[o].invoiceId = i /\ counts(ords[o].status))

(* C17 as stated: when updateInvoiceTotal(i) runs and the reservation aggregate
   and the order aggregate of one of its steps are both absent, the request
   fails with INTERNAL_SERVER_ERROR and no total is written to invoice i. *)
C17_AbsentAggregatesFail ==
    [][\A i \in HookTarget :
          (\/ Absent(reservations', orders', i, Unpaid)
           \/ Absent(reservations', orders', i, NotCancelled))
          => /\ result'.code = "INTERNAL_SERVER_ERROR"
             /\ i \in Indices(invoices) => invoices'[i] = invoices[i]
             /\ i \notin Indices(invoices) => invoices'[i].totalUSD = NullUSD]_vars

(* C17 as amended: in that case updateInvoiceTotal(i) does not fail; it stores
   zero as the value of the step whose aggregates are both absent. *)
C17_AbsentAggregatesStoreZero ==
    [][\A i \in HookTarget :
          /\ Absent(reservations', orders', i, Unpaid)
                => result'.code = "OK" /\ invoices'[i].remainingBalanceUSD = 0
          /\ Absent(reservations', orders', i, NotCancelled)
                => result'.code = "OK" /\ invoices'[i].totalUSD = 0]_vars

(* the only order of an invoice has just been cancelled and the invoice, which
   had a total, now stores zero twice *)
C17_Witness ==
    /\ result.op = "orderUpdate" /\ result.code = "OK" /\ result.status = "CANCELLED"
    /\ orders[result.id].invoiceId \in Indices(invoices)
    /\ Absent(reservations, orders, orders[result.id].invoiceId, NotCancelled)
    /\ invoices[orders[result.id].invoiceId].totalUSD = 0
    /\ invoices[orders[result.id].invoiceId].remainingBalanceUSD = 0

(* C18: when a reservation update through the extended client changes the
   reservation's paymentStatus, the invoice the reservation belonged to before
   the update has been recomputed when the update returns: its totals are the
   sums over its constituents. *)
C18_StatusChangeRecomputes ==
    [][(/\ Served("reservationUpdate") /\ result'.code = "OK"
        /\ result'.id \in Indices(reservations)
        /\ result'.status # "undefined"
        /\ result'.status # reservations[result'.id].paymentStatus
        /\ reservations[result'.id].invoiceId \in Indices(invoices))
       => TotalsMatchIn(invoices', reservations', orders',
                        reservations[result'.id].invoiceId)]_vars

(* C19: when a reservation update through the extended client changes the
   reservation's invoice reference from A to B, A and B have both been
   recomputed when the update returns, whichever of them is null being
   skipped: this covers moving (A to B), attaching (null to B) and detaching
   (A to null). *)
C19_ReferenceChangeRecomputesBoth ==
    [][(/\ Served("reservationUpdate") /\ result'.code = "OK"
        /\ result'.id \in Indices(reservations)
        /\ result'.invoice # Undefined
        /\ result'.invoice # reservations[result'.id].invoiceId)
       => \A i \in {reservations[result'.id].invoiceId, result'.invoice}
                   \cap Indices(invoices) :
              TotalsMatchIn(invoices', reservations', orders', i)]_vars

(* C20: a reservation or an order created through the extended client with a
   reference to an invoice is inserted and that invoice is recomputed after
   the insert, so that its totals include the new record, no other invoice
   being touched; created without a reference, it modifies no invoice. *)
C20_CreateRecomputesInvoice ==
    [][/\ (Served("orderCreate") /\ result'.invoice \in Indices(invoices))
          => /\ result'.code = "OK"
             /\ Len(orders') = Len(orders) + 1
             /\ orders'[Len(orders')].invoiceId = result'.invoice
             /\ TotalsMatchIn(invoices', reservations', orders', result'.invoice)
             /\ Len(invoices') = Len(invoices)
             /\ OtherInvoicesUnchanged(result'.invoice)
       /\ (Served("reservationCreate") /\ result'.invoice \in Indices(invoices))
          => /\ result'.code = "OK"
             /\ Len(reservations') = Len(reservations) + 1
             /\ reservations'[Len(reservations')].invoiceId = result'.invoice
             /\ TotalsMatchIn(invoices', reservations', orders', result'.invoice)
             /\ Len(invoices') = Len(invoices)
             /\ OtherInvoicesUnchanged(result'.invoice)
       /\ ((Served("orderCreate") \/ Served("reservationCreate"))
              /\ result'.invoice = Null)
          => /\ result'.code = "OK"
             /\ UNCHANGED invoices]_vars

(* an order has just been created on an invoice that already had a
   reservation, and the invoice's total counts them both *)
C20_Witness ==
    /\ result.op = "orderCreate" /\ result.code = "OK"
    /\ result.invoice \in Indices(invoices)
    /\ orders[result.id].invoiceId = result.invoice
    /\ \E r \in Indices(reservations) :
          /\ reservations[r].invoiceId = result.invoice
          /\ reservations[r].paymentStatus = "UNPAID"
          /\ invoices[result.invoice].totalUSD =
                reservations[r].subTotalUSD + orders[result.id].subTotalUSD

(* requests p and q both create an invoice and both read the latest invoice
   number from the same Invoice table: neither had inserted when the other read *)
ReadTogether(p, q) ==
    /\ p # q
    /\ inflight[p].op \in {"invoiceCreate", "checkIn"}
    /\ inflight[q].op \in {"invoiceCreate", "checkIn"}
    /\ inflight[p].pc # "idle" /\ inflight[q].pc # "idle"
    /\ inflight[p].table = inflight[q].table

(* request p makes its insert and returns in this step, after q has inserted
   its invoice and with no other write to the Invoice table since *)
InsertsSecond(p, q) ==
    /\ ReadTogether(p, q)
    /\ inflight[p].pc = "read" /\ inflight'[p].pc = "done"
    /\ inflight[q].pc = "done" /\ inflight[q].code = "OK"
    /\ inflight[q].after = invoices

(* C14 as stated: two invoice-creating requests (Invoice.create or checkIn)
   that interleave between the read of the latest invoice number and the
   insert compute the same number, and once one of them has inserted its
   invoice the insert of the other is rejected and that request fails. *)
C14_InterleavedSameNumber ==
    [][\A p \in Requests : \A q \in Requests :
          /\ ReadTogether(p, q) => inflight[p].number = inflight[q].number
          /\ InsertsSecond(p, q)
                => inflight'[p].code # "OK" /\ Len(invoices') = Len(invoices)]_vars

(* C14 as amended: the same for two requests of the same procedure, both
   Invoice.create or both checkIn. *)
C14_SameProcedureSameNumber ==
    [][\A p \in Requests : \A q \in Requests :
          inflight[p].op = inflight[q].op
          => /\ ReadTogether(p, q) => inflight[p].number = inflight[q].number
             /\ InsertsSecond(p, q)
                   => /\ inflight'[p].code # "OK"
                      /\ Len(invoices') = Len(invoices)
                      /\ inflight'[p].code = result'.code]_vars

(* two Invoice.create requests for different guests read the same latest
   number; one has inserted its invoice and the other has been refused *)
C14_Witness ==
    \E p \in Requests : \E q \in Requests :
        /\ ReadTogether(p, q)
        /\ inflight[p].op = "invoiceCreate" /\ inflight[q].op = "invoiceCreate"
        /\ inflight[p].pc = "done" /\ inflight[q].pc = "done"
        /\ inflight[p].email # inflight[q].email
        /\ inflight[p].number = inflight[q].number
        /\ inflight[q].code = "OK"
        /\ inflight[p].code = "INTERNAL_SERVER_ERROR"
        /\ Len(invoices) = Len(inflight[p].table) + 1

(* hook p writes the totals of an invoice and returns in this step; it had
   aggregated them before the triggering write of hook q, for the same
   invoice, and q has recomputed and returned since *)
Overtakes(p, q) ==
    /\ p # q
    /\ inflight[p].op \in {"orderCreate", "orderUpdate"}
    /\ inflight[q].op \in {"orderCreate", "orderUpdate"}
    /\ inflight[p].invoice = inflight[q].invoice
    /\ inflight[p].pc = "read" /\ inflight'[p].pc = "done"
    /\ inflight[q].pc = "done"
    /\ inflight[p].readAt < inflight[q].readAt

(* the totals hook p aggregated are the ones invoice i holds after the step *)
LastWriterWins(p, i) ==
    /\ invoices'[i].totalUSD = inflight[p].total
    /\ invoices'[i].remainingBalanceUSD = inflight[p].balance

(* the sums hook q aggregated are not the ones hook p had aggregated *)
Fresher(q, p) ==
    \/ inflight[q].total # inflight[p].total
    \/ inflight[q].balance # inflight[p].balance

(* C15 as stated: when one reconciliation hook reads its aggregates before the
   triggering write of another hook for the same invoice and writes the
   invoice after the other's recomputation, its write is the one that stays,
   and the stored totalUSD / remainingBalanceUSD differ from the sums over the
   invoice's constituents once both have completed. *)
C15_StaleWriteDiffersFromSums ==
    [][\A p \in Requests : \A q \in Requests :
          Overtakes(p, q)
          => /\ LastWriterWins(p, inflight[p].invoice)
             /\ ~TotalsMatchIn(invoices', reservations', orders',
                               inflight[p].invoice)]_vars

(* C15 as amended: the stale write is the one that stays, and the stored
   totals differ from the sums whenever the totals it overwrote differ from
   the ones it wrote. *)
C15_StaleWriteKeepsStaleTotals ==
    [][\A p \in Requests : \A q \in Requests :
          Overtakes(p, q)
          => /\ LastWriterWins(p, inflight[p].invoice)
             /\ Fresher(q, p)
                   => ~TotalsMatchIn(invoices', reservations', orders',
                                     inflight[p].invoice)]_vars

(* two hooks of one invoice have returned, the one that read first wrote last,
   and the invoice holds its totals, not the sums *)
C15_Witness ==
    \E p \in Requests : \E q \in Requests :
        /\ p # q
        /\ inflight[p].op \in {"orderCreate", "orderUpdate"}
        /\ inflight[q].op \in {"orderCreate", "orderUpdate"}
        /\ inflight[p].pc = "done" /\ inflight[q].pc = "done"
        /\ inflight[p].invoice = inflight[q].invoice
        /\ inflight[p].readAt < inflight[q].readAt
        /\ inflight[q].doneAt < inflight[p].doneAt
        /\ invoices[inflight[p].invoice].totalUSD = inflight[p].total
        /\ inflight[q].total # inflight[p].total
        /\ ~TotalsMatch(inflight[p].invoice)

(* C21: when xprisma.order.update changes the status of an order, the order
   holds the new status and the totals of the order's invoice are the sums
   over its constituents when the update returns; the update of an order
   with no invoice reference succeeds and leaves every invoice as it was. *)
C21_OrderStatusChangeRecomputes ==
    [][(Served("orderUpdate") /\ result'.id \in Indices(orders))
       => LET o == result'.id
              i == orders[o].invoiceId
          IN /\ (orders[o].status # result'.status /\ i \in Indices(invoices))
                   => /\ result'.code = "OK"
                      /\ orders'[o].status = result'.status
                      /\ orders'[o].invoiceId = i
                      /\ TotalsMatchIn(invoices', reservations', orders', i)
             /\ i = Null
                   => /\ result'.code = "OK"
                      /\ orders'[o].status = result'.status
                      /\ invoices' = invoices]_vars

(* an UNPAID order of an invoice has just been marked PAID, and the invoice
   no longer counts it in its balance while it still counts it in its total *)
C21_Witness ==
    /\ result.op = "orderUpdate" /\ result.code = "OK"
    /\ result.id \in Indices(orders)
    /\ result.before = "UNPAID" /\ result.status = "PAID"
    /\ orders[result.id].status = "PAID"
    /\ orders[result.id].invoiceId \in Indices(invoices)
    /\ invoices[orders[result.id].invoiceId].totalUSD
          = invoices[orders[result.id].invoiceId].remainingBalanceUSD + 1

(* C22: an invoice update that takes the status of an invoice that is not
   CANCELLED to CANCELLED persists, as the number of the invoice, the number
   drawn from the cancelled sequence (latest CANCELLED number plus one, or
   9000); every other invoice update, one on an already CANCELLED invoice
   included, leaves the number of the invoice as it was. *)
C22_NumberDrawnOnTransitionOnly ==
    [][(Served("updateStatus") /\ result'.id \in Indices(invoices))
       => LET i == result'.id
          IN IF result'.status = "CANCELLED" /\ invoices[i].status # "CANCELLED"
             THEN /\ invoices'[i].status = "CANCELLED"
                  /\ invoices'[i].invoiceNumber
                        = generateCancelledInvoiceNumber(invoices)
             ELSE invoices'[i].invoiceNumber = invoices[i].invoiceNumber]_vars

(* the largest number of the invoices in ids *)
LatestNumber(invs, ids) ==
    CHOOSE n \in {parseInt(invs[i].invoiceNumber) : i \in ids} :
        \A j \in ids : parseInt(invs[j].invoiceNumber) <= n

(* the most recent number of the sequence plus one, or the base of the
   sequence when it is empty, as a zero-padded string *)
SequenceNext(invs, ids, base) ==
    FormatInvoiceNumber(IF ids = {} THEN base ELSE LatestNumber(invs, ids) + 1)

NormalSequence(invs) == {i \in Indices(invs) : invs[i].status # "CANCELLED"}

CancelledSequence(invs) == {i \in Indices(invs) : invs[i].status = "CANCELLED"}

(* C23: the number a request gives to an invoice is a string of 6 digits: the
   most recent number of the normal sequence (invoices not CANCELLED) plus
   one, or 1220, for Invoice.create; the same, or 2000, for checkIn; the most
   recent number of the cancelled sequence (CANCELLED invoices) plus one, or
   9000, for a cancellation. *)
C23_NumberIsNextOfSequence ==
    [][/\ (Served("invoiceCreate") /\ Len(invoices') = Len(invoices) + 1)
          => /\ invoices'[Len(invoices')].invoiceNumber
                   = SequenceNext(invoices, NormalSequence(invoices), ManualBase)
             /\ Len(invoices'[Len(invoices')].invoiceNumber) = PadWidth
       /\ (Served("checkIn") /\ Len(invoices') = Len(invoices) + 1)
          => /\ invoices'[Len(invoices')].invoiceNumber
                   = SequenceNext(invoices, NormalSequence(invoices), CheckInBase)
             /\ Len(invoices'[Len(invoices')].invoiceNumber) = PadWidth
       /\ (/\ Served("updateStatus") /\ result'.id \in Indices(invoices)
           /\ invoices'[result'.id].invoiceNumber # invoices[result'.id].invoiceNumber)
          => /\ invoices'[result'.id].invoiceNumber
                   = SequenceNext(invoices, CancelledSequence(invoices), CancelledBase)
             /\ Len(invoices'[result'.id].invoiceNumber) = PadWidth]_vars

(* C24: Invoice.updateStatus(id, s) of an existing invoice, for s PAID, UNPAID
   or CANCELLED, leaves status s on the invoice, paymentStatus s on all of
   its reservations, status s on its orders that were UNPAID, and totalUSD
   and remainingBalanceUSD equal to the sums for the new statuses. *)
C24_UpdateStatusPersistsAndRecomputes ==
    [][(Served("updateStatus") /\ result'.id \in Indices(invoices))
       => LET i == result'.id
              s == result'.status
          IN /\ invoices'[i].status = s
             /\ \A r \in Indices(reservations) :
                   reservations[r].invoiceId = i => reservations'[r].paymentStatus = s
             /\ \A o \in Indices(orders) :
                   (orders[o].invoiceId = i /\ orders[o].status = "UNPAID")
                   => orders'[o].status = s
             /\ TotalsMatchIn(invoices', reservations', orders', i)]_vars

(* C25: between requests, a room is OCCUPIED exactly when some CHECKED_IN
   reservation references it. *)
C25_OccupiedIffCheckedIn ==
    \A rm \in Rooms :
        rooms[rm] = "OCCUPIED"
        <=> \E r \in Indices(reservations) :
                /\ reservations[r].status = "CHECKED_IN"
                /\ reservations[r].roomId = rm

(* no request is between two of its awaits *)
Quiet == \A p \in Requests : inflight[p].pc # "read"

(* C26: between requests, every CHECKED_IN reservation is linked to an
   invoice; a checkIn that fails after its reservation update leaves no
   CHECKED_IN reservation without one. *)
C26_CheckedInHasInvoice ==
    Quiet => \A r \in Indices(reservations) :
                 reservations[r].status = "CHECKED_IN"
                 => reservations[r].invoiceId \in Indices(invoices)

(* a number of the cancelled sequence: 9000 or above, where the normal
   sequences start at 1220 and 2000 *)
CancelledNumber(num) == parseInt(num) >= CancelledBase

(* C27: an invoice is CANCELLED exactly when the number it carries is one of
   the cancelled sequence: no CANCELLED invoice keeps a number of the normal
   sequence and no other invoice carries a number of the cancelled one. *)
C27_CancelledIffCancelledNumber ==
    \A i \in Indices(invoices) :
        invoices[i].status = "CANCELLED" <=> CancelledNumber(invoices[i].invoiceNumber)

(* C28: an Invoice.create that fails after its guest step (its invoice insert
   is rejected, or the recomputation fails) leaves no guest, invoice or
   reservation of its own behind. *)
C28_FailedCreateLeavesNothing ==
    [][(/\ Served("invoiceCreate")
        /\ result'.code \notin {"OK", "CONFLICT", "UNPROCESSABLE_CONTENT"})
       => /\ guests' = guests
          /\ invoices' = invoices
          /\ reservations' = reservations]_vars

(* the invoices updateInvoiceTotal has written in this step of the extended
   client: the target of the hook, and every invoice whose totals changed *)
Written ==
    HookTarget
    \cup {i \in Indices(invoices) :
             \/ invoices'[i].totalUSD # invoices[i].totalUSD
             \/ invoices'[i].remainingBalanceUSD # invoices[i].remainingBalanceUSD}

NonNegative(ress, ords) ==
    /\ \A r \in Indices(ress) : ress[r].subTotalUSD >= 0
    /\ \A o \in Indices(ords) : ords[o].subTotalUSD >= 0

(* C29: right after updateInvoiceTotal(i) has written invoice i, if no
   sub-total is negative, 0 <= remainingBalanceUSD <= totalUSD on invoice i. *)
C29_BalanceWithinTotal ==
    [][\A i \in Written :
          NonNegative(reservations', orders')
          => /\ 0 <= invoices'[i].remainingBalanceUSD
             /\ invoices'[i].remainingBalanceUSD <= invoices'[i].totalUSD]_vars

(* an invoice with an UNPAID and a PAID constituent has just been recomputed:
   its balance is positive and strictly below its total *)
C29_Witness ==
    \E i \in Recomputed :
        /\ result.op \in {"orderCreate", "orderUpdate", "reservationCreate"}
        /\ 0 < invoices[i].remainingBalanceUSD
        /\ invoices[i].remainingBalanceUSD < invoices[i].totalUSD
        /\ TotalsMatch(i)

(* the rows of a table that a hook did not itself create or update are as
   they were *)
OtherRowsUnchanged(before, after, written) ==
    \A k \in Indices(before) \ written : k \in Indices(after) /\ after[k] = before[k]

(* C30: updateInvoiceTotal(i), run by a hook on an invoice of the table,
   changes nothing but the totalUSD and remainingBalanceUSD of invoice i: the
   status and number of i, every other invoice, and every reservation and
   order other than the row the hook itself wrote, are as before; and a
   second run right after it stores the same two values. *)
C30_RecomputeFrameAndIdempotence ==
    [][\A i \in HookTarget \cap Indices(invoices) :
          /\ Len(invoices') = Len(invoices)
          /\ OtherRowsUnchanged(invoices, invoices', {i})
          /\ invoices'[i] = [invoices[i] EXCEPT
                                !.totalUSD = invoices'[i].totalUSD,
                                !.remainingBalanceUSD = invoices'[i].remainingBalanceUSD]
          /\ OtherRowsUnchanged(reservations, reservations', {})
          /\ OtherRowsUnchanged(orders, orders',
                 IF result'.op = "orderUpdate" THEN {result'.id} ELSE {})
          /\ updateInvoiceTotal(invoices', reservations', orders', i) = invoices'
          /\ updateInvoiceTotal(
                 updateInvoiceTotal(invoices, reservations', orders', i),
                 reservations', orders', i) = invoices']_vars

(* an order was just added to one of two invoices, both of which hold
   reservations: the totals of the one changed and those of the other did not *)
C30_Witness ==
    /\ result.op = "orderCreate" /\ result.code = "OK"
    /\ result.invoice \in Indices(invoices)
    /\ invoices[result.invoice].totalUSD = 3
    /\ invoices[result.invoice].remainingBalanceUSD = 3
    /\ \E j \in Indices(invoices) \ {result.invoice} :
          invoices[j].totalUSD = 2
    /\ \E r \in Indices(reservations) : reservations[r].invoiceId = result.invoice
====
